---- MODULE Spec2Model ----
(***************************************************************************)
(* blackbox.js: the observable box of src/src/index.ts (createBox, derive) *)
(* as a state machine.  JavaScript values are tagged records [t, v]; every *)
(* array and plain object lives in a heap cell with an identity, so that   *)
(* aliasing between the box and its callers is visible.  A notification    *)
(* (Array.prototype.forEach over the subscriber list) is a stack of loop   *)
(* frames that advances one callback at a time, so listeners can re-enter  *)
(* the box while a dispatch is in progress.                                *)
(***************************************************************************)
EXTENDS Integers, Sequences, FiniteSets, TLC

\* ------------------------------------------------------------- bounds
\* numbers stored in a box range over 0..MaxNum
MaxNum == 1
\* arrays and plain objects created in one behaviour
MaxObjs == 4
\* subscribe calls made in one behaviour (each returns one handle)
MaxHandles == 3
\* set/update calls made within one top-level set/update, itself included
MaxMutations == 2
\* projection function objects a component passes to useDerivedBox
MaxSelectors == 2

\* ------------------------------------------------------------- values
Num(n) == [t |-> "number", v |-> n]
Str == [t |-> "string", v |-> 0]
Bool == [t |-> "boolean", v |-> 1]
Undef == [t |-> "undefined", v |-> 0]
Null == [t |-> "null", v |-> 0]
Func == [t |-> "function", v |-> 0]
Ref(i) == [t |-> "ref", v |-> i]
\* a key an object does not have
Absent == [t |-> "absent", v |-> 0]

Ids == 1..MaxObjs
Nums == {Num(n) : n \in 0..MaxNum}

\* a heap cell: a plain object is the pair <<count, name>> of its two
\* possible own keys, an array the sequence of its elements
FreeCell == [t |-> "free", v |-> <<>>]
Obj(count, name) == [t |-> "object", v |-> <<count, name>>]
Arr(elems) == [t |-> "array", v |-> elems]
EmptyObj == Obj(Absent, Absent)

IsRef(x) == x.t = "ref"

\* the typeof operator: null, arrays and plain objects are all "object"
TypeOf(x) == IF x.t \in {"ref", "null"} THEN "object" ELSE x.t

IsArray(x, h) == IsRef(x) /\ h[x.v].t = "array"

FreeIds(h) == {i \in Ids : h[i].t = "free"}

\* the identity a new object gets: the least unused cell
NewId(h) == CHOOSE i \in FreeIds(h) : \A j \in FreeIds(h) : i <= j

\* the own enumerable properties a spread of `source` copies: none for null
OwnProps(source, h) == IF IsRef(source) THEN h[source.v].v ELSE EmptyObj.v

\* no copy at all: the value itself, the heap as it was
alias(source, h) == [val |-> source, heap |-> h]

\* copy(source): [val |-> the value returned, heap |-> the heap afterwards]
copy(source, h) ==
    IF TypeOf(source) # "object" THEN [val |-> source, heap |-> h]
    ELSE IF TypeOf(source) = "function" THEN [val |-> source, heap |-> h]
    ELSE IF IsArray(source, h) THEN
         LET id == NewId(h) IN
         [val |-> Ref(id), heap |-> [h EXCEPT ![id] = Arr(h[source.v].v)]]
    ELSE LET id == NewId(h) IN
         [val |-> Ref(id),
          heap |-> [h EXCEPT ![id] = [t |-> "object", v |-> OwnProps(source, h)]]]

\* whether copy(source) creates an object
Allocates(source) == TypeOf(source) = "object"

\* structural equality (toEqual): the shape of a value, identities erased;
\* fields hold scalars, so one level of the heap is the whole structure
Shape(x, h) == IF IsRef(x) THEN h[x.v] ELSE x

\* the cells a set of values refers to
RefIds(xs) == {x.v : x \in {y \in xs : IsRef(y)}}

Min(a, b) == IF a < b THEN a ELSE b

\* ------------------------------------------------------ subscriber lists
\* the listener functions user code subscribes; "fwd" is the arrow function
\* derive subscribes to its source box
Fns == {"f", "g"}
Forwarder == "fwd"

\* Array.prototype.indexOf on a subscriber list: the first entry holding the
\* function, as a 0-based index, or -1.  An entry's `by` names the subscribe
\* call that pushed it; the program keeps only the function.
indexOf(list, fn) ==
    IF \E i \in 1..Len(list) : list[i].fn = fn
    THEN (CHOOSE i \in 1..Len(list) :
            list[i].fn = fn /\ \A j \in 1..(i - 1) : list[j].fn # fn) - 1
    ELSE -1

\* Array.prototype.splice(start): with no count, everything from start on
\* is removed
spliceToEnd(list, start) ==
    LET n == Len(list)
        from == IF start < 0 THEN (IF n + start < 0 THEN 0 ELSE n + start)
                ELSE Min(start, n)
    IN SubSeq(list, 1, from)

\* Array.prototype.splice(start, 1): a negative start counts from the end
splice(list, start) ==
    LET n == Len(list)
        from == IF start < 0 THEN (IF n + start < 0 THEN 0 ELSE n + start)
                ELSE Min(start, n)
    IN [i \in 1..(IF from < n THEN n - 1 ELSE n) |->
          IF i <= from THEN list[i] ELSE list[i + 1]]

\* ------------------------------------------------------------ handlers
\* the mutation handlers callers pass to set, by what their body does
Handler(kind, k) == [kind |-> kind, k |-> k]
\* n => n + 1, () => k
NumHandlers == {Handler("inc", 0)} \cup {Handler("const", n) : n \in 0..MaxNum}
\* state => { state.count = k; return state }, state => ({...state, count: k}),
\* state => state, () => null, state => { state.count = k } (returns nothing)
ObjHandlers ==
    {Handler(kind, n) : kind \in {"mutate", "spread"}, n \in 0..MaxNum}
      \cup {Handler("identity", 0), Handler("null", 0), Handler("write", 1)}

\* state => ({ ...state, [key]: value }), the handler of useBoxForm's onChange
Field(key, value) == [kind |-> "field", k |-> key, value |-> value]

\* { [key]: value }: an object holding the one property
withoutSpread(props, key, value) ==
    [k \in 1..Len(props) |-> IF k = key THEN value ELSE Absent]

\* { ...state, [key]: value }: the properties of state, then the one written
spreadWith(props, key, value) == [props EXCEPT ![key] = value]

IsObject(x, h) == IsRef(x) /\ h[x.v].t = "object"

Applicable(m, arg, h) ==
    CASE m.kind = "inc" -> arg.t = "number" /\ arg.v < MaxNum
      [] m.kind \in {"mutate", "write"} -> IsObject(arg, h)
      [] m.kind \in {"spread", "field"} -> IsObject(arg, h) /\ FreeIds(h) # {}
      [] OTHER -> TRUE

\* handler(arg): [ret |-> the value returned, heap |-> the heap afterwards]
Apply(m, arg, h) ==
    CASE m.kind = "inc" -> [ret |-> Num(arg.v + 1), heap |-> h]
      [] m.kind = "const" -> [ret |-> Num(m.k), heap |-> h]
      [] m.kind = "null" -> [ret |-> Null, heap |-> h]
      [] m.kind = "identity" -> [ret |-> arg, heap |-> h]
      [] m.kind = "mutate" ->
           [ret |-> arg, heap |-> [h EXCEPT ![arg.v].v[1] = Num(m.k)]]
      [] m.kind = "write" ->
           [ret |-> Undef, heap |-> [h EXCEPT ![arg.v].v[1] = Num(m.k)]]
      [] m.kind = "spread" ->
           LET id == NewId(h) IN
           [ret |-> Ref(id), heap |-> [h EXCEPT ![id] = Obj(Num(m.k), h[arg.v].v[2])]]
      [] m.kind = "field" ->
           LET id == NewId(h)
               props == spreadWith(h[arg.v].v, m.k, m.value)
           IN [ret |-> Ref(id), heap |-> [h EXCEPT ![id] = Obj(props[1], props[2])]]

\* --------------------------------------------------------------- state
VARIABLES
    internalState,  \* createBox: let internalState
    subscribers,    \* createBox: let subscribers, entries [fn, by]
    handles,        \* the unsubscribe closures returned so far, and their calls
    stack,          \* the forEach loops in progress, innermost last
    heap,           \* the arrays and plain objects, by identity
    held,           \* the identities code outside the box has a reference to
    selector,       \* derive: selectorFunction ("none" before derive is called)
    dsubscribers,   \* derive: let subscribers
    calls,          \* listener invocations since the last top-level call began
    snap,           \* the lists and the value when the top-level mutation began
    stored,         \* the values stored since the last top-level mutation began
    dirty,          \* what listeners did to the box during this dispatch
    last,           \* the last top-level call
    got,            \* what the last get() returned, and the get() before it
    expect,         \* the value construction or the last mutation was given
    zero,           \* lib createBox: var zero (Absent in a box without reset)
    component       \* the React component using a hook on the box

vars == <<internalState, subscribers, handles, stack, heap, held, selector,
          dsubscribers, calls, snap, stored, dirty, last, got, expect, zero,
          component>>

Frame(src, len, state) == [src |-> src, k |-> 0, len |-> len, state |-> state]

Got(op, val, prev) == [op |-> op, val |-> val, prev |-> prev]
NoGot == Got("none", Absent, Absent)
Expect(via, shape, passed) ==
    [via |-> via, shape |-> shape, passed |-> passed, written |-> FALSE]
NoSnap == [box |-> <<>>, derived |-> <<>>, before |-> Absent]

\* a projection function passed to a hook: which function object it is (id)
\* and what it computes (f)
Selector(id, f) == [id |-> id, f |-> f]
NoSelector == Selector(0, "identity")

\* no component uses the box: nothing rendered, no effect pending (pending),
\* no cleanup function kept by React (handle = 0).  `sel` is the projection
\* of the last render, `ran` the one the last effect closed over; `made`
\* counts the listener functions created; `subscribed`, `released` and
\* `before` note the box.subscribe calls and cleanup calls of this mount and
\* the subscriber list when it began
NoComponent ==
    [hook |-> "none", phase |-> "unmounted", state |-> Absent,
     sel |-> NoSelector, ran |-> NoSelector, pending |-> FALSE, handle |-> 0,
     made |-> 0, subscribed |-> 0, released |-> 0, before |-> <<>>]

\* createBox(state): internalState = copy(state), subscribers = []
Created(state, h) ==
    LET c == copy(state, h) IN
    /\ internalState = c.val
    /\ heap = c.heap
    /\ held = RefIds({state})
    /\ subscribers = <<>>
    /\ handles = <<>>
    /\ stack = <<>>
    /\ selector = "none"
    /\ dsubscribers = <<>>
    /\ calls = <<>>
    /\ snap = NoSnap
    /\ stored = <<>>
    /\ dirty = {}
    /\ last = "createBox"
    /\ got = NoGot
    /\ expect = Expect("createBox", Shape(state, h), state)
    /\ zero = Absent
    /\ component = NoComponent

EmptyHeap == [i \in Ids |-> FreeCell]

\* createBox(0)
Init == Created(Num(0), EmptyHeap)

\* ------------------------------------------------ the box's operations
\* what a top-level call that starts no notification leaves in the notes
Note(op) ==
    /\ last' = op
    /\ calls' = <<>>
    /\ snap' = NoSnap
    /\ stored' = <<>>
    /\ dirty' = {}

\* what a top-level set or update leaves in the notes
NoteMutation(op) ==
    /\ last' = op
    /\ calls' = <<>>
    /\ snap' = [box |-> subscribers, derived |-> dsubscribers,
                before |-> internalState]
    /\ stored' = <<internalState'>>
    /\ dirty' = {}

\* subscribe of createBox (src = "box") and of derive (src = "derived"):
\* subscribers.push(subscriber), and the closure it returns
subscribe(src, fn) ==
    LET entry == [fn |-> fn, by |-> Len(handles) + 1] IN
    /\ Len(handles) < MaxHandles
    /\ handles' = Append(handles, [fn |-> fn, src |-> src, called |-> 0,
                                   inside |-> FALSE])
    /\ IF src = "box"
       THEN subscribers' = Append(subscribers, entry) /\ UNCHANGED dsubscribers
       ELSE dsubscribers' = Append(dsubscribers, entry) /\ UNCHANGED subscribers

\* what the closure does to its list: indexOf, then splice when found
removeGuarded(list, fn) ==
    LET index == indexOf(list, fn) IN
    IF index # -1 THEN splice(list, index) ELSE list

\* the closure subscribe returned to call number i, called once more
\* (inside: from a listener, while a notification is in progress)
unsubscribe(i, inside) ==
    /\ i \in 1..Len(handles)
    /\ handles' = [handles EXCEPT ![i].called = 1,
                                  ![i].inside = @ \/ inside]
    /\ IF handles[i].src = "box"
       THEN /\ subscribers' = removeGuarded(subscribers, handles[i].fn)
            /\ UNCHANGED dsubscribers
       ELSE /\ dsubscribers' = removeGuarded(dsubscribers, handles[i].fn)
            /\ UNCHANGED subscribers

\* set(handler), called with the loops `base` in progress and `refs` held
\* outside: internalState = handler(copy(internalState)), then the forEach
set(handler, base, refs) ==
    LET c == copy(internalState, heap)
        r == Apply(handler, c.val, c.heap)
        seen == refs \cup RefIds({c.val, r.ret})
        frames == Append(base, Frame("box", Len(subscribers), Undef))
    IN /\ Allocates(internalState) => FreeIds(heap) # {}
       /\ Applicable(handler, c.val, c.heap)
       /\ internalState' = r.ret
       /\ held' = seen
       /\ heap' = r.heap
       /\ stack' = frames
       /\ expect' = Expect("set", Shape(r.ret, r.heap), r.ret)
       /\ got' = NoGot
       /\ UNCHANGED <<subscribers, handles, selector, dsubscribers, zero, component>>

\* update(state): internalState = copy(state), then the forEach
update(state, base, refs) ==
    LET c == copy(state, heap)
        frames == Append(base, Frame("box", Len(subscribers), Undef))
    IN /\ Allocates(state) => FreeIds(heap) # {}
       /\ internalState' = c.val
       /\ held' = refs
       /\ heap' = c.heap
       /\ stack' = frames
       /\ expect' = Expect("update", Shape(state, heap), state)
       /\ got' = NoGot
       /\ UNCHANGED <<subscribers, handles, selector, dsubscribers, zero, component>>

Subscribe(fn) ==
    /\ stack = <<>>
    /\ subscribe("box", fn)
    /\ Note("subscribe")
    /\ got' = NoGot
    /\ UNCHANGED <<internalState, stack, heap, held, selector, expect, zero,
                   component>>

Unsubscribe(i) ==
    /\ stack = <<>>
    /\ unsubscribe(i, FALSE)
    /\ Note(IF handles[i].called = 1 THEN "unsubscribe again" ELSE "unsubscribe")
    /\ got' = NoGot
    /\ UNCHANGED <<internalState, stack, heap, held, selector, expect, zero,
                   component>>

\* get(): copy(internalState)
Get ==
    LET c == copy(internalState, heap) IN
    /\ stack = <<>>
    /\ Allocates(internalState) => FreeIds(heap) # {}
    /\ got' = Got("get", c.val, IF got.op = "get" THEN got.val ELSE Absent)
    /\ held' = held \cup RefIds({c.val})
    /\ heap' = c.heap
    /\ Note("get")
    /\ UNCHANGED <<internalState, subscribers, handles, stack, selector,
                   dsubscribers, expect, zero, component>>

Set(handler) ==
    /\ stack = <<>>
    /\ set(handler, <<>>, held)
    /\ NoteMutation("set")

Update(state) ==
    /\ stack = <<>>
    /\ update(state, <<>>, held)
    /\ NoteMutation("update")

\* ------------------------------------------------- the typeof checks
\* what a caller may pass where subscribe expects a function: a listener
\* function, or a value that is not one, named by what typeof gives for it
NotFunctions == {"undefined", "number", "object"}
typeofSubscriber(x) == IF x \in Fns \cup {Forwarder} THEN "function" ELSE x
\* the number n passed where set expects a handler
Value(n) == Handler("value", n)
typeofHandler(m) == IF m.kind = "value" THEN "number" ELSE "function"

\* a subscribe that lets every argument through
subscriberIsAnything(x) == TRUE

\* typeof subscriber !== 'function', typeof handler !== 'function': negated
subscriberIsFunction(x) == typeofSubscriber(x) = "function"
handlerIsFunction(m) == typeofHandler(m) = "function"

\* the argument a call was given, by its type
Passed(op, type) == Got(op, [t |-> type, v |-> 0], Absent)

\* throw new Error(...): the call ends there
Throw(op, type) ==
    /\ last' = "throw"
    /\ got' = Passed(op, type)
    /\ UNCHANGED <<internalState, subscribers, handles, stack, heap, held,
                   selector, dsubscribers, calls, snap, stored, dirty, expect,
                   zero, component>>

\* subscribe(x) for an argument of any type
SubscribeWith(x) ==
    /\ stack = <<>>
    /\ IF ~subscriberIsFunction(x)
       THEN Throw("subscribe", typeofSubscriber(x))
       ELSE /\ subscribe("box", x)
            /\ Note("subscribe")
            /\ got' = Passed("subscribe", typeofSubscriber(x))
            /\ UNCHANGED <<internalState, stack, heap, held, selector, expect,
                           zero, component>>

\* set(m) for an argument of any type
SetWith(m) ==
    /\ stack = <<>>
    /\ IF ~handlerIsFunction(m)
       THEN Throw("set", typeofHandler(m))
       ELSE Set(m)

\* ----------------------------------------------------------- derive
\* the selector functions: state => state.count, state => state
Selectors == {"count", "identity"}

\* projections whose call throws: one whose body throws, and values that
\* are not functions (calling one is a TypeError)
ThrowingSelectors == {"throwing"} \cup {"undefined", "number", "object"}
Throws(sel) == sel \in ThrowingSelectors

\* selectorFunction(state), when it returns
Project(sel, state, h) ==
    IF sel = "count"
    THEN IF IsObject(state, h) /\ h[state.v].v[1] # Absent
         THEN h[state.v].v[1] ELSE Undef
    ELSE state

\* derive(box, selectorFunction): its own empty list, and box.subscribe of
\* the forwarding arrow function (the closure returned is dropped)
Derive(sel) ==
    /\ stack = <<>>
    /\ selector = "none"
    /\ selector' = sel
    /\ subscribers' = Append(subscribers, [fn |-> Forwarder, by |-> 0])
    /\ Note("derive")
    /\ got' = NoGot
    /\ UNCHANGED <<internalState, handles, stack, heap, held, dsubscribers, expect, zero,
                   component>>

DSubscribe(fn) ==
    /\ stack = <<>>
    /\ selector # "none"
    /\ subscribe("derived", fn)
    /\ Note("subscribe")
    /\ got' = NoGot
    /\ UNCHANGED <<internalState, stack, heap, held, selector, expect, zero,
                   component>>

\* get of a derivation that keeps the projection of the last state it was
\* notified with instead of reading the box
deriveGetCached(refs) ==
    LET notified == \E j \in 1..Len(calls) : calls[j].fn = Forwarder
        state == IF stack # <<>> /\ ~notified THEN snap.before ELSE internalState
        result == Project(selector, state, heap)
    IN /\ selector # "none"
       /\ got' = Got("dget", result, Absent)
       /\ held' = refs \cup RefIds({result})
       /\ heap' = heap

\* get of derive: selectorFunction(box.get())
deriveGet(refs) ==
    LET c == copy(internalState, heap)
        result == Project(selector, c.val, c.heap)
        seen == refs \cup RefIds({c.val, result})
    IN /\ selector # "none"
       /\ ~Throws(selector)
       /\ Allocates(internalState) => FreeIds(heap) # {}
       /\ got' = Got("dget", result, Absent)
       /\ held' = seen
       /\ heap' = c.heap

DGet ==
    /\ stack = <<>>
    /\ deriveGet(held)
    /\ Note("dget")
    /\ UNCHANGED <<internalState, subscribers, handles, stack, selector,
                   dsubscribers, expect, zero, component>>

\* ------------------------------------------------------- notification
\* subscribers.forEach(callback): the innermost loop, the entry at its index
\* and the argument its callback passes to that entry
top == stack[Len(stack)]
listOf(src) == IF src = "box" THEN subscribers ELSE dsubscribers
\* forEach calls the callback while k < len (len read once, when the loop
\* starts) and index k is still present in the array
CanCallUnlessEqual ==
    /\ stack # <<>>
    /\ top.k < top.len
    /\ top.k < Len(listOf(top.src))
    /\ internalState # snap.before

CanCall == /\ stack # <<>>
           /\ top.k < top.len
           /\ top.k < Len(listOf(top.src))
entry == listOf(top.src)[top.k + 1]
\* (subscriber) => subscriber(internalState) reads the variable at each call;
\* derive's callback passes selectorFunction(state) of the state it was given
argument ==
    IF top.src = "box" THEN internalState
    ELSE Project(selector, top.state, heap)
\* the loops once the callback has been entered: forEach moves on when it returns
advanced == [stack EXCEPT ![Len(stack)].k = @ + 1]
logged ==
    Append(calls, [src |-> top.src, fn |-> entry.fn, by |-> entry.by,
                   arg |-> argument, depth |-> Len(stack)])
\* a listener of user code is called: it sees its argument
Called ==
    /\ CanCall
    /\ entry.fn \in Fns
    /\ ~(top.src = "derived" /\ Throws(selector))
    /\ calls' = logged

\* the listener does nothing to the box
ListenerReturns ==
    /\ Called
    /\ stack' = advanced
    /\ held' = held \cup RefIds({argument})
    /\ got' = NoGot
    /\ UNCHANGED <<internalState, subscribers, handles, heap, selector,
                   dsubscribers, snap, stored, dirty, last, expect,
                   zero, component>>

\* the listener calls an unsubscribe closure
ListenerUnsubscribes(i) ==
    /\ Called
    /\ unsubscribe(i, TRUE)
    /\ stack' = advanced
    /\ held' = held \cup RefIds({argument})
    /\ dirty' = dirty \cup {"unsubscribe"}
    /\ got' = NoGot
    /\ UNCHANGED <<internalState, heap, selector, snap, stored, last, expect, zero,
                   component>>

\* the listener subscribes a function to the list that is notifying it
ListenerSubscribes(fn) ==
    /\ Called
    /\ subscribe(top.src, fn)
    /\ stack' = advanced
    /\ held' = held \cup RefIds({argument})
    /\ dirty' = dirty \cup {"subscribe"}
    /\ got' = NoGot
    /\ UNCHANGED <<internalState, heap, selector, snap, stored, last, expect, zero,
                   component>>

\* the listener calls set on the box
ListenerSets(handler) ==
    /\ Called
    /\ Len(stored) < MaxMutations
    /\ set(handler, advanced, held \cup RefIds({argument}))
    /\ stored' = Append(stored, internalState')
    /\ dirty' = dirty \cup {"set"}
    /\ UNCHANGED <<snap, last>>

\* the listener calls update on the box
ListenerUpdates(state) ==
    /\ Called
    /\ Len(stored) < MaxMutations
    /\ update(state, advanced, held \cup RefIds({argument}))
    /\ stored' = Append(stored, internalState')
    /\ dirty' = dirty \cup {"update"}
    /\ UNCHANGED <<snap, last>>

\* the listener reads the derivation
ListenerReadsDerived ==
    /\ Called
    /\ deriveGet(held \cup RefIds({argument}))
    /\ stack' = advanced
    /\ UNCHANGED <<internalState, subscribers, handles, selector, dsubscribers,
                   snap, stored, dirty, last, expect, zero, component>>

\* the box calls derive's forwarding function, which starts the forEach over
\* the derivation's own list
Forward ==
    /\ CanCall
    /\ entry.fn = Forwarder
    /\ calls' = logged
    /\ stack' = Append(advanced, Frame("derived", Len(dsubscribers), argument))
    /\ got' = NoGot
    /\ UNCHANGED <<internalState, subscribers, handles, heap, held, selector,
                   dsubscribers, snap, stored, dirty, last, expect,
                   zero, component>>

\* a forEach has no index left to visit: it returns to its caller
Return ==
    /\ stack # <<>>
    /\ ~CanCall
    /\ stack' = SubSeq(stack, 1, Len(stack) - 1)
    /\ got' = NoGot
    /\ UNCHANGED <<internalState, subscribers, handles, heap, held, selector,
                   dsubscribers, calls, snap, stored, dirty, last, expect,
                   zero, component>>

\* ------------------------------------------------ code outside the box
\* the caller writes a top-level field of an object it has a reference to
WriteField(i, n) ==
    /\ stack = <<>>
    /\ i \in held
    /\ heap[i].t = "object"
    /\ heap[i].v[1] # Num(n)
    /\ heap' = [heap EXCEPT ![i].v[1] = Num(n)]
    /\ expect' = [expect EXCEPT !.written = TRUE]
    /\ Note("write")
    /\ got' = NoGot
    /\ UNCHANGED <<internalState, subscribers, handles, stack, held, selector,
                   dsubscribers, zero, component>>

\* ------------------------------------------------------ specifications
\* a box of numbers with listeners free to re-enter it
Next ==
    \/ \E fn \in Fns : Subscribe(fn)
    \/ \E i \in 1..MaxHandles : Unsubscribe(i)
    \/ Get
    \/ \E m \in NumHandlers : Set(m)
    \/ \E n \in Nums : Update(n)
    \/ ListenerReturns
    \/ \E i \in 1..MaxHandles : ListenerUnsubscribes(i)
    \/ \E fn \in Fns : ListenerSubscribes(fn)
    \/ \E m \in NumHandlers : ListenerSets(m)
    \/ \E n \in Nums : ListenerUpdates(n)
    \/ Return

Spec == Init /\ [][Next]_vars

\* a box of any value, with the objects its callers hold: what createBox is
\* given, and the heap the caller built it in
Given ==
    {[state |-> x, heap |-> EmptyHeap] : x \in {Num(0), Str, Bool, Undef, Null}}
      \cup {[state |-> Ref(1), heap |-> [EmptyHeap EXCEPT ![1] = Obj(Num(0), Str)]],
            [state |-> Ref(1),
             heap |-> [EmptyHeap EXCEPT ![1] = Arr(<<Num(0), Num(1)>>)]]}

InitValues == \E g \in Given : Created(g.state, g.heap)

NextValues ==
    \/ subscribers = <<>> /\ Subscribe("f")
    \/ Get
    \/ \E m \in NumHandlers \cup ObjHandlers : Set(m)
    \/ \E x \in Nums \cup {Null} \cup {Ref(i) : i \in held} : Update(x)
    \/ ListenerReturns
    \/ Return
    \/ \E i \in held, n \in 0..MaxNum : WriteField(i, n)

SpecValues == InitValues /\ [][NextValues]_vars

\* a box of { count: 0, name: 'foo' }, with a derivation of it
InitDerive == Created(Ref(1), [EmptyHeap EXCEPT ![1] = Obj(Num(0), Str)])

\* state => { state.count = n; return state }
DeriveHandlers == {Handler("mutate", n) : n \in 0..MaxNum}

NextDerive ==
    \/ Subscribe("f")
    \/ \E sel \in Selectors : Derive(sel)
    \/ DSubscribe("g")
    \/ \E m \in DeriveHandlers : Set(m)
    \/ DGet
    \/ ListenerReturns
    \/ \E i \in 1..MaxHandles : ListenerUnsubscribes(i)
    \/ \E m \in DeriveHandlers : ListenerSets(m)
    \/ ListenerReadsDerived
    \/ Forward
    \/ Return

SpecDerive == InitDerive /\ [][NextDerive]_vars

\* ------------------------------------------- listeners that read the box
\* the listener calls get() on the box: noted with the argument it was given
ListenerGets ==
    LET c == copy(internalState, heap) IN
    /\ Called
    /\ Allocates(internalState) => FreeIds(heap) # {}
    /\ got' = Got("listener get", c.val, argument)
    /\ heap' = c.heap
    /\ held' = held \cup RefIds({argument, c.val})
    /\ stack' = advanced
    /\ UNCHANGED <<internalState, subscribers, handles, selector, dsubscribers,
                   snap, stored, dirty, last, expect, zero, component>>

\* n => n + 1, () => k, () => null
ReentryHandlers == NumHandlers \cup {Handler("null", 0)}

\* a box of numbers and null whose listeners read it and set it
NextReentry ==
    \/ \E fn \in Fns : Subscribe(fn)
    \/ \E m \in ReentryHandlers : Set(m)
    \/ ListenerReturns
    \/ ListenerGets
    \/ \E m \in ReentryHandlers : ListenerSets(m)
    \/ Return

SpecReentry == Init /\ [][NextReentry]_vars

\* ------------------------- listeners that unsubscribe and subscribe
\* the listener calls an unsubscribe closure of the box and then subscribes
\* a function to the box, in the one invocation
ListenerResubscribes(i, fn) ==
    LET left == removeGuarded(subscribers, handles[i].fn)
        new == [fn |-> fn, by |-> Len(handles) + 1]
    IN /\ Called
       /\ top.src = "box"
       /\ i \in 1..Len(handles)
       /\ handles[i].src = "box"
       /\ Len(handles) < MaxHandles
       /\ subscribers' = Append(left, new)
       /\ handles' = Append([handles EXCEPT ![i].called = 1, ![i].inside = TRUE],
                            [fn |-> fn, src |-> "box", called |-> 0,
                             inside |-> FALSE])
       /\ stack' = advanced
       /\ held' = held \cup RefIds({argument})
       /\ dirty' = dirty \cup {"unsubscribe", "subscribe"}
       /\ got' = NoGot
       /\ UNCHANGED <<internalState, heap, selector, dsubscribers, snap, stored,
                      last, expect, zero, component>>

\* a box of numbers whose listeners subscribe and unsubscribe while they
\* are notified, and never set the box
NextResubscribe ==
    \/ \E fn \in Fns : Subscribe(fn)
    \/ \E m \in NumHandlers : Set(m)
    \/ ListenerReturns
    \/ \E fn \in Fns : ListenerSubscribes(fn)
    \/ \E i \in 1..MaxHandles : ListenerUnsubscribes(i)
    \/ \E i \in 1..MaxHandles, fn \in Fns : ListenerResubscribes(i, fn)
    \/ Return

SpecResubscribe == Init /\ [][NextResubscribe]_vars

\* ------------------------------------ derive with arguments of any kind
\* a derive that subscribes nothing to its source
DeriveDetached(x) ==
    /\ stack = <<>>
    /\ selector = "none"
    /\ selector' = x
    /\ Note("derive")
    /\ got' = Passed("derive", IF x \in Selectors \cup {"throwing"}
                                THEN "function" ELSE x)
    /\ UNCHANGED <<internalState, subscribers, handles, stack, heap, held,
                   dsubscribers, expect, zero, component>>

\* derive(box, x) for a projection of any kind: derive has no typeof check
DeriveWith(x) ==
    /\ stack = <<>>
    /\ selector = "none"
    /\ selector' = x
    /\ subscribers' = Append(subscribers, [fn |-> Forwarder, by |-> 0])
    /\ Note("derive")
    /\ got' = Passed("derive", IF x \in Selectors \cup {"throwing"}
                                THEN "function" ELSE x)
    /\ UNCHANGED <<internalState, handles, stack, heap, held, dsubscribers,
                   expect, zero, component>>

\* subscribe of the derivation, for an argument of any type
DSubscribeWith(x) ==
    /\ stack = <<>>
    /\ selector # "none"
    /\ IF ~subscriberIsFunction(x)
       THEN Throw("dsubscribe", typeofSubscriber(x))
       ELSE /\ subscribe("derived", x)
            /\ Note("subscribe")
            /\ got' = Passed("dsubscribe", typeofSubscriber(x))
            /\ UNCHANGED <<internalState, stack, heap, held, selector, expect,
                           zero, component>>

\* get of the derivation when calling the projection throws: box.get() has
\* made its copy, nothing is returned
DGetThrows ==
    LET c == copy(internalState, heap) IN
    /\ stack = <<>>
    /\ selector # "none"
    /\ Throws(selector)
    /\ Allocates(internalState) => FreeIds(heap) # {}
    /\ heap' = c.heap
    /\ Note("thrown")
    /\ got' = NoGot
    /\ UNCHANGED <<internalState, subscribers, handles, stack, held, selector,
                   dsubscribers, expect, zero, component>>

\* an exception that some enclosing loop catches: only the innermost
\* forEach is abandoned
swallow == stack' = SubSeq(stack, 1, Len(stack) - 1)

\* an exception nothing catches: every forEach in progress is abandoned and
\* the top-level call ends
propagate == stack' = <<>>

\* the forwarding function evaluates selectorFunction(state) for a listener
\* of the derivation, and the call throws
ProjectionThrows ==
    /\ CanCall
    /\ top.src = "derived"
    /\ Throws(selector)
    /\ propagate
    /\ last' = "thrown"
    /\ got' = NoGot
    /\ UNCHANGED <<internalState, subscribers, handles, heap, held, selector,
                   dsubscribers, calls, snap, stored, dirty, expect, zero,
                   component>>

\* a box of numbers and a derivation made and used with arguments of any kind
NextDeriveCalls ==
    \/ \E fn \in Fns : Subscribe(fn)
    \/ \E x \in {"identity", "throwing", "number"} : DeriveWith(x)
    \/ \E x \in {"g", "number"} : DSubscribeWith(x)
    \/ \E i \in 1..MaxHandles : Unsubscribe(i)
    \/ \E m \in NumHandlers : Set(m)
    \/ DGet
    \/ DGetThrows
    \/ ListenerReturns
    \/ Forward
    \/ ProjectionThrows
    \/ Return

SpecDeriveCalls == Init /\ [][NextDeriveCalls]_vars

\* ------------------------------------ handlers and listeners that throw
\* () => { throw e }, state => { state.count = k; throw e }
Throwing == {Handler("throw", 0)} \cup
            {Handler("write and throw", n) : n \in 0..MaxNum}

\* set(handler) when the handler throws: the copy is made and given to the
\* handler, which may write to it; the assignment of line 188 and the
\* forEach are never reached
SetThrows(m) ==
    LET c == copy(internalState, heap) IN
    /\ stack = <<>>
    /\ Allocates(internalState) => FreeIds(heap) # {}
    /\ IF m.kind = "write and throw"
       THEN /\ IsObject(c.val, c.heap)
            /\ heap' = [c.heap EXCEPT ![c.val.v].v[1] = Num(m.k)]
       ELSE heap' = c.heap
    /\ Note("set thrown")
    /\ got' = NoGot
    /\ UNCHANGED <<internalState, subscribers, handles, stack, held, selector,
                   dsubscribers, expect, zero, component>>

\* the listener throws: forEach has no try/catch, nor has any caller in
\* the box
ListenerThrows ==
    /\ Called
    /\ propagate
    /\ last' = "listener thrown"
    /\ held' = held \cup RefIds({argument})
    /\ got' = NoGot
    /\ UNCHANGED <<internalState, subscribers, handles, heap, selector,
                   dsubscribers, snap, stored, dirty, expect, zero, component>>

\* a box of a number or of { count: 0, name: 'foo' }
InitThrows ==
    \/ Created(Num(0), EmptyHeap)
    \/ Created(Ref(1), [EmptyHeap EXCEPT ![1] = Obj(Num(0), Str)])

\* handlers and listeners may throw; listeners may set the box
NextThrows ==
    \/ \E fn \in Fns : Subscribe(fn)
    \/ \E m \in NumHandlers \cup DeriveHandlers : Set(m)
    \/ \E m \in Throwing : SetThrows(m)
    \/ ListenerReturns
    \/ ListenerThrows
    \/ \E m \in NumHandlers : ListenerSets(m)
    \/ Return

SpecThrows == InitThrows /\ [][NextThrows]_vars

\* ------------------------------------- lib/index.js: the box with reset
\* In this box `internalState` is the variable the source calls `inner`.
Str2 == [t |-> "string", v |-> 1]

\* JSON.stringify leaves out an object's undefined and function properties
\* and writes such array elements as null
JsonProperty(x) == IF x.t \in {"undefined", "function"} THEN Absent ELSE x
JsonElement(x) == IF x.t \in {"undefined", "function"} THEN Null ELSE x

\* clone(value) = JSON.parse(JSON.stringify(value)), for a value JSON has a
\* text for: [val |-> the value returned, heap |-> the heap afterwards]
clone(value, h) ==
    IF ~IsRef(value) THEN [val |-> value, heap |-> h]
    ELSE LET id == NewId(h)
             old == h[value.v]
             new == [i \in DOMAIN old.v |->
                       IF old.t = "array" THEN JsonElement(old.v[i])
                       ELSE JsonProperty(old.v[i])]
         IN [val |-> Ref(id), heap |-> [h EXCEPT ![id] = [t |-> old.t, v |-> new]]]

\* Object.assign that leaves only the keys of source
assignOnly(target, source) == source

\* Object.assign(target, source) on the keys count, name: every own key of
\* source is written to target
assign(target, source) ==
    [k \in 1..2 |-> IF source[k] # Absent THEN source[k] ELSE target[k]]

\* an update that hands the updater the stored object itself
shallowNone(source, h) == [val |-> source, heap |-> h]

\* Object.assign({}, inner): [val |-> the new object, heap |-> the heap afterwards]
shallow(source, h) ==
    LET id == NewId(h) IN
    [val |-> Ref(id),
     heap |-> [h EXCEPT ![id] = Obj(assign(EmptyObj.v, OwnProps(source, h))[1],
                                    assign(EmptyObj.v, OwnProps(source, h))[2])]]

\* createBox(value): inner = value, zero = clone(value), subscribers = []
LibCreated(value, h) ==
    LET z == clone(value, h) IN
    /\ internalState = value
    /\ zero = z.val
    /\ heap = z.heap
    /\ held = RefIds({value})
    /\ subscribers = <<>>
    /\ handles = <<>>
    /\ stack = <<>>
    /\ selector = "none"
    /\ dsubscribers = <<>>
    /\ calls = <<>>
    /\ snap = NoSnap
    /\ stored = <<>>
    /\ dirty = {}
    /\ last = "createBox"
    /\ got = NoGot
    /\ expect = Expect("createBox", Shape(value, h), value)
    /\ component = NoComponent

\* createBox({ count: 0, name: 'foo' }), createBox({ count: 0 })
InitLib ==
    \E name \in {Str, Absent} :
        LibCreated(Ref(1), [EmptyHeap EXCEPT ![1] = Obj(Num(0), name)])

\* a reset that also empties the subscriber list
resetAndClear ==
    /\ internalState' = zero
    /\ subscribers' = <<>>

\* reset: inner = zero
reset ==
    /\ internalState' = zero
    /\ UNCHANGED subscribers

LibReset ==
    /\ stack = <<>>
    /\ reset
    /\ last' = "reset"
    /\ calls' = <<>>
    /\ snap' = [box |-> subscribers, derived |-> dsubscribers,
                before |-> internalState]
    /\ stored' = <<>>
    /\ dirty' = {}
    /\ got' = NoGot
    /\ UNCHANGED <<handles, stack, heap, held, selector, dsubscribers, expect,
                   zero, component>>

\* get: return inner
LibGet ==
    /\ stack = <<>>
    /\ got' = Got("get", internalState, Absent)
    /\ held' = held \cup RefIds({internalState})
    /\ Note("get")
    /\ UNCHANGED <<internalState, subscribers, handles, stack, heap, selector,
                   dsubscribers, expect, zero, component>>

\* the objects callers pass to set and the writes their updaters make, as
\* the pair <<count, name>> of the keys given (Absent: key not given)
Partials == {<<Num(MaxNum), Absent>>, <<Absent, Str2>>, <<Num(0), Str2>>}

\* set(value): inner = Object.assign({}, inner, value), then the forEach
LibSet(value) ==
    LET id == NewId(heap)
        merged == assign(assign(EmptyObj.v, OwnProps(internalState, heap)), value)
    IN /\ stack = <<>>
       /\ FreeIds(heap) # {}
       /\ internalState' = Ref(id)
       /\ heap' = [heap EXCEPT ![id] = Obj(merged[1], merged[2])]
       /\ stack' = <<Frame("box", Len(subscribers), Undef)>>
       /\ got' = Got("set", Obj(value[1], value[2]), Shape(internalState, heap))
       /\ NoteMutation(IF last = "reset" THEN "set after reset" ELSE "set")
       /\ UNCHANGED <<subscribers, handles, held, selector, dsubscribers, expect,
                      zero, component>>

\* update(updater): clone = Object.assign({}, inner); updater(clone);
\* inner = clone, then the forEach.  The updater writes the keys of `writes`
\* and may keep the object it was given.
LibUpdate(writes) ==
    LET c == shallow(internalState, heap)
        written == assign(c.heap[c.val.v].v, writes)
    IN /\ stack = <<>>
       /\ FreeIds(heap) # {}
       /\ internalState' = c.val
       /\ heap' = [c.heap EXCEPT ![c.val.v] = Obj(written[1], written[2])]
       /\ held' = held \cup RefIds({c.val})
       /\ stack' = <<Frame("box", Len(subscribers), Undef)>>
       /\ got' = Got("update", Obj(writes[1], writes[2]), Shape(internalState, heap))
       /\ NoteMutation(IF last = "reset" THEN "update after reset" ELSE "update")
       /\ UNCHANGED <<subscribers, handles, selector, dsubscribers, expect, zero,
                      component>>

\* subscribe: subscribers.push(subscriber), with no typeof check
LibSubscribe(fn) ==
    /\ stack = <<>>
    /\ subscribe("box", fn)
    /\ Note("subscribe")
    /\ got' = NoGot
    /\ UNCHANGED <<internalState, stack, heap, held, selector, expect, zero,
                   component>>

\* the closure of lib's subscribe: indexOf, then splice whatever it gave
LibUnsubscribe(i) ==
    /\ stack = <<>>
    /\ i \in 1..Len(handles)
    /\ handles' = [handles EXCEPT ![i].called = 1]
    /\ subscribers' = splice(subscribers, indexOf(subscribers, handles[i].fn))
    /\ Note(IF handles[i].called = 1 THEN "unsubscribe again" ELSE "unsubscribe")
    /\ got' = NoGot
    /\ UNCHANGED <<internalState, stack, heap, held, selector, dsubscribers,
                   expect, zero, component>>

NextLib ==
    \/ \E fn \in Fns : (\A i \in 1..Len(handles) : handles[i].fn # fn) /\ LibSubscribe(fn)
    \/ \E i \in 1..MaxHandles : LibUnsubscribe(i)
    \/ LibGet
    \/ \E value \in Partials : LibSet(value)
    \/ \E writes \in Partials : LibUpdate(writes)
    \/ LibReset
    \/ ListenerReturns
    \/ Return
    \/ \E i \in held, n \in 0..MaxNum : WriteField(i, n)

SpecLib == InitLib /\ [][NextLib]_vars

\* ------------------------------------------------------------- hooks
\* The component calls the hook each time React renders it; React runs the
\* effect after the first render and after a render that changed one of
\* its dependencies, calling the cleanup function the previous run returned
\* first, and calls the cleanup function when the component is unmounted.
Hooks == {"useBox", "useDerivedBox"}

\* the hooks that keep the box's state itself and subscribe setState, with
\* an effect that depends on nothing
StateHooks == {"useBox", "useBoxForm"}

\* the listener functions the hooks subscribe: useState's setState, one per
\* mount, for useBox; the arrow function, one per effect run, for
\* useDerivedBox
HookFns == <<"listener1", "listener2", "listener3">>
HookFnSet == {HookFns[i] : i \in 1..Len(HookFns)}

\* the projections a render of the component may pass: none to useBox
SelectorsOf(hook) ==
    IF hook \in StateHooks THEN {NoSelector}
    ELSE {Selector(id, f) : id \in 1..MaxSelectors, f \in Selectors}

\* the dependency array of the hook's effect: [] and [selectorFunction, box]
deps(hook, sel) == IF hook \in StateHooks THEN <<>> ELSE <<sel.id, "box">>

\* an effect that returns nothing to React
effectReturnsNothing(handle) == 0

\* what the effect returns to React as its cleanup function: the closure
\* box.subscribe returned
effectReturns(handle) == handle

\* the first render: useState(box.get()), useState(selectorFunction(box.get()))
Mount(hook, sel) ==
    LET c == copy(internalState, heap)
        value == IF hook \in StateHooks THEN c.val
                 ELSE Project(sel.f, c.val, c.heap)
        new == IF hook \in StateHooks THEN component.made + 1 ELSE component.made
    IN /\ stack = <<>>
       /\ component.phase = "unmounted"
       /\ new <= Len(HookFns)
       /\ Allocates(internalState) => FreeIds(heap) # {}
       /\ component' = [hook |-> hook, phase |-> "mounted", state |-> value,
                        sel |-> sel, ran |-> NoSelector, pending |-> TRUE,
                        handle |-> 0, made |-> new, subscribed |-> 0,
                        released |-> 0, before |-> subscribers]
       /\ heap' = c.heap
       /\ held' = held \cup RefIds({c.val})
       /\ Note("render")
       /\ got' = NoGot
       /\ UNCHANGED <<internalState, subscribers, handles, stack, selector,
                      dsubscribers, expect, zero>>

\* a later render: useState returns the state kept, useEffect compares the
\* dependencies with those of the last run
Rerender(sel) ==
    /\ stack = <<>>
    /\ component.phase = "mounted"
    /\ ~component.pending
    /\ component' = [component EXCEPT
                        !.sel = sel,
                        !.pending = deps(component.hook, sel)
                                      # deps(component.hook, component.ran)]
    /\ Note("render")
    /\ got' = NoGot
    /\ UNCHANGED <<internalState, subscribers, handles, stack, heap, held,
                   selector, dsubscribers, expect, zero>>

\* React calls the cleanup function of the previous run of the effect
Cleanup ==
    /\ stack = <<>>
    /\ component.phase = "mounted"
    /\ component.pending
    /\ component.handle # 0
    /\ unsubscribe(component.handle, FALSE)
    /\ component' = [component EXCEPT !.handle = 0, !.released = @ + 1]
    /\ Note("cleanup")
    /\ got' = NoGot
    /\ UNCHANGED <<internalState, stack, heap, held, selector, expect, zero>>

\* React runs the effect: box.subscribe(setState), or box.subscribe of a new
\* arrow function that closes over the selectorFunction of this render
Effect ==
    LET new == IF component.hook \in StateHooks THEN component.made
               ELSE component.made + 1
    IN /\ stack = <<>>
       /\ component.phase = "mounted"
       /\ component.pending
       /\ component.handle = 0
       /\ new <= Len(HookFns)
       /\ subscribe("box", HookFns[new])
       /\ component' = [component EXCEPT
                           !.pending = FALSE,
                           !.ran = component.sel,
                           !.made = new,
                           !.handle = effectReturns(Len(handles) + 1),
                           !.subscribed = @ + 1]
       /\ Note("effect")
       /\ got' = NoGot
       /\ UNCHANGED <<internalState, stack, heap, held, selector, expect, zero>>

\* React unmounts the component, its effects run: it calls the cleanup
\* function the effect returned, if it returned one
Unmount ==
    /\ stack = <<>>
    /\ component.phase = "mounted"
    /\ ~component.pending
    /\ IF component.handle # 0
       THEN /\ unsubscribe(component.handle, FALSE)
            /\ component' = [component EXCEPT !.phase = "unmounted",
                                !.handle = 0, !.released = @ + 1]
       ELSE /\ component' = [component EXCEPT !.phase = "unmounted"]
            /\ UNCHANGED <<subscribers, handles, dsubscribers>>
    /\ Note("unmount")
    /\ got' = NoGot
    /\ UNCHANGED <<internalState, stack, heap, held, selector, expect, zero>>

\* the box calls the hook's listener: setState(state), or
\* setState(selectorFunction(state)) with the projection it closed over
HookListener ==
    /\ CanCall
    /\ entry.fn \in HookFnSet
    /\ calls' = logged
    /\ component' = [component EXCEPT
                        !.state = IF component.hook \in StateHooks THEN argument
                                  ELSE Project(component.ran.f, argument, heap)]
    /\ stack' = advanced
    /\ held' = held \cup RefIds({argument})
    /\ got' = NoGot
    /\ UNCHANGED <<internalState, subscribers, handles, heap, selector,
                   dsubscribers, snap, stored, dirty, last, expect, zero>>

\* a box of numbers used by a component; other code subscribes its
\* listeners while the component is not mounted
NextHooks ==
    \/ \E hook \in Hooks : \E sel \in SelectorsOf(hook) : Mount(hook, sel)
    \/ \E sel \in SelectorsOf(component.hook) : Rerender(sel)
    \/ Cleanup
    \/ Effect
    \/ Unmount
    \/ HookListener
    \/ component.phase = "unmounted" /\ Subscribe("f")
    \/ \E m \in NumHandlers : Set(m)
    \/ ListenerReturns
    \/ Return

SpecHooks == Init /\ [][NextHooks]_vars

\* ----------------------------------------------------------- useBoxForm
\* the keys of the box's object, count and name, and the texts an input
\* field may hold
Keys == {1, 2}
Inputs == {Str, Str2}

\* what the change event of a field carries: the key the field was
\* registered with and e.target.value
Input(key, value) == [key |-> key, value |-> value]

\* register(key).value, as the component's next render computes it: state[key]
register(key) == heap[component.state.v].v[key]

\* the field registered for `key` fires its change event with text `value`,
\* after React has run the component's effects: onChange calls
\* box.set(state => ({ ...state, [key]: e.target.value }))
Change(key, value) ==
    LET c == copy(internalState, heap)
        r == Apply(Field(key, value), c.val, c.heap)
    IN /\ stack = <<>>
       /\ component.hook = "useBoxForm"
       /\ component.phase = "mounted"
       /\ ~component.pending
       /\ Allocates(internalState) => FreeIds(heap) # {}
       /\ Applicable(Field(key, value), c.val, c.heap)
       /\ internalState' = r.ret
       /\ held' = held \cup RefIds({c.val, r.ret})
       /\ heap' = r.heap
       /\ stack' = <<Frame("box", Len(subscribers), Undef)>>
       /\ expect' = Expect("change", Input(key, value), r.ret)
       /\ got' = NoGot
       /\ NoteMutation("change")
       /\ UNCHANGED <<subscribers, handles, selector, dsubscribers, zero,
                      component>>

\* createBox({ count: 0, name: 'foo' }) called with a literal that nothing
\* else refers to: the heap holds the box's copy only
InitForm ==
    /\ internalState = Ref(1)
    /\ heap = [EmptyHeap EXCEPT ![1] = Obj(Num(0), Str)]
    /\ held = {}
    /\ subscribers = <<>>
    /\ handles = <<>>
    /\ stack = <<>>
    /\ selector = "none"
    /\ dsubscribers = <<>>
    /\ calls = <<>>
    /\ snap = NoSnap
    /\ stored = <<>>
    /\ dirty = {}
    /\ last = "createBox"
    /\ got = NoGot
    /\ expect = Expect("createBox", Obj(Num(0), Str), Absent)
    /\ zero = Absent
    /\ component = NoComponent

\* a form component on a box of an object, with other listeners of the
\* box; the closure the effect returned is React's alone to call
NextForm ==
    \/ Mount("useBoxForm", NoSelector)
    \/ Rerender(NoSelector)
    \/ Effect
    \/ Unmount
    \/ \E key \in Keys, value \in Inputs : Change(key, value)
    \/ HookListener
    \/ \E fn \in Fns : Subscribe(fn)
    \/ \E i \in 1..Len(handles) : handles[i].fn \in Fns /\ Unsubscribe(i)
    \/ ListenerReturns
    \/ Return

SpecForm == InitForm /\ [][NextForm]_vars

\* a box of numbers whose callers pass arguments of any type
NextErrors ==
    \/ \E x \in Fns \cup NotFunctions : SubscribeWith(x)
    \/ \E m \in NumHandlers \cup {Value(0)} : SetWith(m)
    \/ \E i \in 1..MaxHandles : Unsubscribe(i)
    \/ ListenerReturns
    \/ Return

SpecErrors == Init /\ [][NextErrors]_vars

\* -------------------------------------------------------------- claims
\* a top-level set/update has returned
Returned == stack = <<>> /\ last \in {"set", "update"}

\* how often a list holds a function, and how often a list called it
Entries(list, fn) == Cardinality({i \in 1..Len(list) : list[i].fn = fn})
CallsOf(src, fn) ==
    Cardinality({j \in 1..Len(calls) : calls[j].src = src /\ calls[j].fn = fn})
\* the arguments the entry pushed by subscribe call `by` received, in order
RECURSIVE Received(_, _)
Received(log, by) ==
    IF log = <<>> THEN <<>>
    ELSE IF Head(log).by = by THEN <<Head(log).arg>> \o Received(Tail(log), by)
    ELSE Received(Tail(log), by)

\* C1: when a set or update whose listeners did not touch the box returns,
\* the listeners called are exactly the entries of the subscriber list, each
\* once, in subscription order, each with the value just stored; whether
\* that value differs from the one before plays no part
C1_EachListenerOnceInOrder ==
    (Returned /\ dirty = {}) =>
        /\ Len(calls) = Len(subscribers)
        /\ \A i \in 1..Len(calls) :
              /\ calls[i].fn = subscribers[i].fn
              /\ calls[i].by = subscribers[i].by
              /\ calls[i].arg = internalState

\* C1 witness: an update that stored the value the box already had has
\* returned after calling two different listeners
C1_Witness ==
    /\ Returned /\ dirty = {}
    /\ snap.before = internalState
    /\ Len(calls) = 2
    /\ calls[1].fn # calls[2].fn

\* C3: with every unsubscribe closure called outside notifications only, a
\* set/update whose listeners leave the box alone calls each function once
\* per subscription of it whose closure was never called: nothing for a
\* subscription that was cancelled, once for every one that was not
C3_OnlyLiveSubscriptionsCalled ==
    (/\ Returned /\ dirty = {}
     /\ \A i \in 1..Len(handles) : ~handles[i].inside) =>
        \A fn \in Fns :
            CallsOf("box", fn) =
                Cardinality({i \in 1..Len(handles) :
                               handles[i].fn = fn /\ handles[i].called = 0})

\* C4: when listeners do nothing but call unsubscribe closures during a
\* notification, every function is called at least once per entry of it that
\* is still subscribed when the notification ends (none is skipped) and at
\* most once per entry it had when the notification began (none called twice)
C4_NoListenerSkipped ==
    (Returned /\ dirty = {"unsubscribe"}) =>
        \A fn \in Fns :
            /\ Entries(subscribers, fn) <= CallsOf("box", fn)
            /\ CallsOf("box", fn) <= Entries(snap.box, fn)

\* C5: when listeners do nothing to the box but call set/update during a
\* notification, every subscriber has received, by the time the outer call
\* returns, exactly the values stored, in the order they were stored
C5_EachMutationDelivered ==
    (Returned /\ dirty # {} /\ dirty \subseteq {"set", "update"}) =>
        \A i \in 1..Len(subscribers) :
            Received(calls, subscribers[i].by) = stored

\* C6: a second or later call of an unsubscribe closure leaves the
\* subscriber list as it was
C6_SecondCallIsNoOp ==
    [][last' = "unsubscribe again" => subscribers' = subscribers]_vars

\* C2: a get() that follows set(m), with no write by outside code in
\* between, returns a value structurally equal to what m returned for the
\* copy of the previous value
C2_GetReturnsHandlerResult ==
    (got.op = "get" /\ expect.via = "set" /\ ~expect.written) =>
        Shape(got.val, heap) = expect.shape

\* C7: a get() on a box nothing was stored in since createBox(v) returns a
\* value structurally equal to v, of another identity than v when v is an
\* array or object, and of another identity than the get() just before it
C7_GetReturnsInitialValue ==
    (got.op = "get" /\ expect.via = "createBox" /\ ~expect.written) =>
        /\ Shape(got.val, heap) = expect.shape
        /\ IsRef(expect.passed) => got.val # expect.passed
        /\ IsRef(got.val) => got.val # got.prev

\* C8: the object the box stores is never one that code outside the box has
\* a reference to
C8_StoredValueNotAliased == IsRef(internalState) => internalState.v \notin held

\* C9: whenever the derivation's get() has just returned, at top level or
\* inside a listener, with or without subscribers of the derivation, it
\* returned the projection of the value the box stores at that moment
C9_DerivedGetIsCurrent ==
    got.op = "dget" =>
        Shape(got.val, heap) = Shape(Project(selector, internalState, heap), heap)

\* C9 witness: a listener has read the derivation, which has no subscribers,
\* during the notification of a mutation that changed the projected value,
\* and got the new projection
C9_Witness ==
    /\ got.op = "dget"
    /\ stack # <<>>
    /\ dsubscribers = <<>>
    /\ got.val = Num(1)
    /\ Project(selector, snap.before, heap) = Num(0)

\* C10: when a set/update of the source box with no nested mutation returns,
\* every listener subscribed to the derivation throughout has been called
\* exactly once by the derivation, with the projection of the value stored
C10_DerivedListenersCalledOnce ==
    (/\ Returned /\ selector # "none"
     /\ Len(stored) = 1 /\ snap.derived = dsubscribers) =>
        \A i \in 1..Len(dsubscribers) :
            /\ Cardinality({j \in 1..Len(calls) :
                              /\ calls[j].src = "derived"
                              /\ calls[j].by = dsubscribers[i].by}) = 1
            /\ \A j \in 1..Len(calls) :
                  calls[j].src = "derived" =>
                      calls[j].arg = Project(selector, internalState, heap)

\* C11: a subscribe or set call given an argument that is not a function
\* throws, and the stored value, the subscriber list, the listener calls
\* made so far and the loops in progress (none) are what they were before
C11_InvalidArgumentChangesNothing ==
    [][(got'.op \in {"subscribe", "set"} /\ got'.val.t # "function") =>
          /\ last' = "throw"
          /\ UNCHANGED <<internalState, subscribers, calls, stack>>]_vars

\* C11 witness: subscribe has thrown on a box that holds 1 and has listeners
C11_Witness ==
    /\ last = "throw"
    /\ got.op = "subscribe"
    /\ subscribers # <<>>
    /\ internalState = Num(1)

\* a set/update of the box with reset has returned
LibReturned ==
    /\ stack = <<>>
    /\ last \in {"set", "update", "set after reset", "update after reset"}

\* every entry of `list` was called once, in order, with the stored value
CalledOnceInOrder(list) ==
    /\ Len(calls) = Len(list)
    /\ \A i \in 1..Len(calls) :
          /\ calls[i].fn = list[i].fn
          /\ calls[i].by = list[i].by
          /\ calls[i].arg = internalState

\* C12: whenever reset() has just been called, whatever was set, updated,
\* read and written by callers before, the value the box holds (what get()
\* returns) is structurally equal to the value passed at construction
C12_ResetRestoresInitial ==
    last = "reset" => Shape(internalState, heap) = expect.shape

\* C13: when reset() has returned, every subscribed listener has been
\* called once with the restored value
C13_ResetNotifies ==
    (last = "reset" /\ stack = <<>>) => CalledOnceInOrder(subscribers)

\* C14: reset() leaves the subscriber list as it was, and the set/update
\* that follows it calls every listener that was subscribed before the
\* reset, once, in order
C14_ResetKeepsSubscribers ==
    /\ [][last' = "reset" => subscribers' = subscribers]_vars
    /\ [](last = "reset" => subscribers = snap.box)
    /\ []((stack = <<>> /\ last \in {"set after reset", "update after reset"})
            => CalledOnceInOrder(snap.box))

\* C14 witness: a set that followed a reset has returned after calling the
\* two listeners subscribed before the reset
C14_Witness ==
    /\ stack = <<>>
    /\ last = "set after reset"
    /\ Len(calls) = 2
    /\ calls[1].fn # calls[2].fn

\* C16: right after set(partial) stored its value, the stored object has
\* partial's value for every key partial has and the previous value for
\* every other key; and when set returns every subscriber has been called
\* once with the stored object
C16_SetMergesPartial ==
    /\ got.op = "set" =>
          \A k \in 1..2 :
              heap[internalState.v].v[k] =
                  IF got.val.v[k] # Absent THEN got.val.v[k] ELSE got.prev.v[k]
    /\ (stack = <<>> /\ last \in {"set", "set after reset"}) =>
          CalledOnceInOrder(subscribers)

\* C16 witness: set({ count: 1 }) on { count: 0, name: 'foo' } has returned
\* after calling two listeners with { count: 1, name: 'foo' }
C16_Witness ==
    /\ stack = <<>>
    /\ last = "set"
    /\ Len(calls) = 2
    /\ snap.before = Ref(1)
    /\ heap[1] = Obj(Num(0), Str)
    /\ Shape(calls[2].arg, heap) = Obj(Num(1), Str)

\* C17: update(updater) stores an object of a new identity, not the one
\* stored before, holding the previous keys with the updater's writes on
\* top; the object stored before keeps its keys; and when update returns
\* every subscriber has been called once with the stored object
C17_UpdateStoresFreshCopy ==
    /\ [][got'.op = "update" =>
             /\ internalState' # internalState
             /\ heap[internalState'.v] = FreeCell
             /\ heap'[internalState.v] = heap[internalState.v]
             /\ \A k \in 1..2 :
                   heap'[internalState'.v].v[k] =
                       IF got'.val.v[k] # Absent THEN got'.val.v[k]
                       ELSE heap[internalState.v].v[k]]_vars
    /\ []((stack = <<>> /\ last \in {"update", "update after reset"})
            => CalledOnceInOrder(subscribers))

\* C17 witness: an update whose updater changed count has returned after
\* calling two listeners, and the object stored before still has the old count
C17_Witness ==
    /\ stack = <<>>
    /\ last = "update"
    /\ Len(calls) = 2
    /\ heap[snap.before.v].v[1] = Num(0)
    /\ heap[internalState.v].v[1] = Num(1)

FnSeq(list) == [k \in 1..Len(list) |-> list[k].fn]
Without(list, i) == SelectSeq(list, LAMBDA e : e.by # i)

\* C18: the first call of a handle, outside notifications, while the entry
\* its own subscribe call pushed is in the list, removes that entry: the
\* functions left are called in the order of the list without that entry
C18_HandleRemovesOwnEntry ==
    [][\A i \in 1..Len(handles) :
          (/\ last' = "unsubscribe"
           /\ handles[i].called = 0 /\ handles'[i].called = 1
           /\ \E j \in 1..Len(subscribers) : subscribers[j].by = i) =>
              FnSeq(subscribers') = FnSeq(Without(subscribers, i))]_vars

\* C19: while a component using useBox is mounted, box.subscribe has been
\* called at most once for this mount, exactly once when its effect has
\* run, and no cleanup was called; once it is unmounted, box.subscribe and
\* the cleanup were each called exactly once, and when the unmount ends the
\* box's subscribers are those it had before the mount
C19_UseBoxSubscribesOncePerMount ==
    component.hook = "useBox" =>
        /\ component.phase = "mounted" =>
              /\ component.released = 0
              /\ component.subscribed = (IF component.pending THEN 0 ELSE 1)
        /\ component.phase = "unmounted" =>
              /\ component.subscribed = 1
              /\ component.released = 1
              /\ last = "unmount" => subscribers = component.before

\* C19 witness: a component that used useBox on a box holding 1, which has
\* another listener, has just been unmounted
C19_Witness ==
    /\ component.hook = "useBox"
    /\ component.phase = "unmounted"
    /\ component.state = Num(1)
    /\ component.before # <<>>
    /\ last = "unmount"

\* C20: for a component using useDerivedBox, box.subscribe is called at
\* most once while it is mounted and the cleanup only at unmount, after
\* which both were called exactly once; the first render sets the local
\* state to the projection of the box's value and every notification sets
\* it to the projection of the value notified
C20_UseDerivedBoxSubscribesOncePerMount ==
    /\ [](component.hook = "useDerivedBox" =>
            /\ component.phase = "mounted" =>
                  component.subscribed <= 1 /\ component.released = 0
            /\ component.phase = "unmounted" =>
                  component.subscribed = 1 /\ component.released = 1)
    /\ [][component'.hook = "useDerivedBox" =>
            /\ (component.phase = "unmounted" /\ component'.phase = "mounted") =>
                  component'.state = Project(component'.sel.f, internalState, heap)
            /\ (calls' # calls /\ calls' # <<>>) =>
                  component'.state =
                      Project(component.ran.f, calls'[Len(calls')].arg, heap)]_vars

\* C21: derive given a projection that is not a function throws, and the
\* source box's subscriber list is what it was before the call
C21_DeriveRejectsNonFunction ==
    [][(got'.op = "derive" /\ got'.val.t # "function") =>
          (last' = "throw" /\ subscribers' = subscribers)]_vars

\* C23: the derivation's subscribe throws on an argument that is not a
\* function and changes nothing; a second or later call of an unsubscribe
\* closure leaves the derivation's list as it was; and no step that changes
\* the derivation's list changes the source's list
C23_DerivedSubscribeFollowsBoxContract ==
    [][((got'.op = "dsubscribe" /\ got'.val.t # "function") =>
            (last' = "throw" /\ UNCHANGED <<internalState, subscribers, dsubscribers>>))
       /\ (last' = "unsubscribe again" => dsubscribers' = dsubscribers)
       /\ (dsubscribers' # dsubscribers => subscribers' = subscribers)]_vars

\* C24: derive appends exactly one entry, its forwarding function, to the
\* source's list and leaves the stored value alone; a get, subscribe or
\* unsubscribe of the derivation changes neither the source's stored value
\* nor its list; and from then on the source's list holds the forwarding
\* function exactly once
C24_DeriveSubscribesOnce ==
    /\ [][((selector = "none" /\ selector' # "none") =>
              (/\ subscribers' = Append(subscribers, [fn |-> Forwarder, by |-> 0])
               /\ internalState' = internalState))
          /\ ((dsubscribers' # dsubscribers \/ got'.op \in {"dget", "dsubscribe"}) =>
                UNCHANGED <<internalState, subscribers>>)]_vars
    /\ [](selector # "none" => Entries(subscribers, Forwarder) = 1)

\* C24 witness: a derivation whose only listener was unsubscribed has just
\* been read, while its source has another listener
C24_Witness ==
    /\ got.op = "dget"
    /\ dsubscribers = <<>>
    /\ \E i \in 1..Len(handles) :
          handles[i].src = "derived" /\ handles[i].called = 1
    /\ Len(subscribers) = 2

\* C26: when the projection has thrown during a notification, no loop is
\* left in progress (the set/update call has ended with the exception), the
\* value is stored, and the listeners called in that notification are the
\* source's entries up to the forwarding function and no listener of the
\* derivation
C26_ProjectionFailurePropagates ==
    (last = "thrown" /\ stored # <<>>) =>
        /\ stack = <<>>
        /\ internalState = stored[Len(stored)]
        /\ \E n \in 1..Len(snap.box) :
              /\ snap.box[n].fn = Forwarder
              /\ FnSeq(calls) = FnSeq(SubSeq(snap.box, 1, n))

\* C26 witness: the projection threw in a notification of a source with a
\* listener before and one after the forwarding function
C26_Witness ==
    /\ last = "thrown"
    /\ selector = "throwing"
    /\ Len(snap.box) = 3
    /\ snap.box[2].fn = Forwarder
    /\ dsubscribers # <<>>
    /\ Len(calls) = 2

\* C22: in the box with reset, calling an unsubscribe closure that has
\* already been called removes no entry of the subscriber list
C22_LibSecondUnsubscribeRemovesNothing ==
    [][last' = "unsubscribe again" => subscribers' = subscribers]_vars

\* C25: frame conditions of the canonical box. A get leaves the value and
\* the list alone; a set or update leaves the list as it was; a subscribe
\* appends one entry at the end and leaves the value alone; an unsubscribe
\* removes at most one entry, keeps the others in order and leaves the
\* value alone
C25_OperationsChangeOnlyTheirPart ==
    [][(stack = <<>>) =>
        /\ (last' = "get" => UNCHANGED <<internalState, subscribers>>)
        /\ (last' \in {"set", "update"} => subscribers' = subscribers)
        /\ (last' = "subscribe" =>
              /\ internalState' = internalState
              /\ Len(subscribers') = Len(subscribers) + 1
              /\ SubSeq(subscribers', 1, Len(subscribers)) = subscribers)
        /\ (last' \in {"unsubscribe", "unsubscribe again"} =>
              /\ internalState' = internalState
              /\ \/ subscribers' = subscribers
                 \/ \E i \in 1..Len(subscribers) :
                       subscribers' = SubSeq(subscribers, 1, i - 1) \o
                           SubSeq(subscribers, i + 1, Len(subscribers)))]_vars

\* C25 witness: an unsubscribe has just removed the middle entry of three
C25_Witness ==
    /\ last = "unsubscribe"
    /\ stack = <<>>
    /\ FnSeq(subscribers) = <<"f", "f">>
    /\ Len(handles) = 3
    /\ handles[2].fn = "g" /\ handles[2].called = 1

\* C27: a set whose handler writes a field of the object it is given and
\* returns nothing leaves the box holding an object with the written field
C27_SetWithVoidHandlerKeepsWrites ==
    [][(stack = <<>> /\ last' = "set" /\ IsObject(internalState, heap)
            /\ expect'.via = "set" /\ expect'.passed = Undef) =>
          (/\ IsObject(internalState', heap')
           /\ heap'[internalState'.v].v[1] = Num(1))]_vars

\* C28: createBox's copy of a number, string, boolean, undefined or null is
\* that value itself, and its copy of an array or object is a new array or
\* object with the same elements or properties, nested values shared
C28_CopyKeepsScalarsCopiesContainers ==
    last = "createBox" =>
        IF IsRef(expect.passed)
        THEN /\ IsRef(internalState)
             /\ internalState # expect.passed
             /\ heap[internalState.v] = heap[expect.passed.v]
        ELSE internalState = expect.passed

\* C30: a mounted useBox component whose effect has run, while no
\* notification is in progress, holds local state equal in structure to
\* what the box holds
C30_UseBoxStateFollowsBox ==
    (/\ component.hook = "useBox"
     /\ component.phase = "mounted"
     /\ ~component.pending
     /\ stack = <<>>) =>
        Shape(component.state, heap) = Shape(internalState, heap)

\* C29: when the change event of the field registered for a key has been
\* handled, one value was stored, the box's object holds the event's text
\* under that key and what it held before under the other key, every entry
\* of the subscriber list (setState among them) was called once, in order,
\* with the stored object, and the component's register(key).value is the
\* event's text
C29_FormChangeReachesBoxAndField ==
    (last = "change" /\ stack = <<>>) =>
        LET key == expect.shape.key
            value == expect.shape.value
        IN /\ Len(stored) = 1
           /\ IsObject(internalState, heap)
           /\ heap[internalState.v].v[key] = value
           /\ \A k \in Keys \ {key} :
                 heap[internalState.v].v[k] = heap[snap.before.v].v[k]
           /\ CalledOnceInOrder(snap.box)
           /\ component.phase = "mounted" => register(key) = value

\* C29 witness: the count field was changed to a text while the box had the
\* form's setState between two other listeners, and the component is still
\* mounted
C29_Witness ==
    /\ last = "change"
    /\ stack = <<>>
    /\ expect.shape = Input(1, Str2)
    /\ Len(calls) = 3
    /\ calls[2].fn \in HookFnSet
    /\ component.phase = "mounted"
    /\ heap[internalState.v].v = <<Str2, Str>>

\* C31: whenever a listener is invoked, at any depth of nested set calls,
\* its argument is the value the box holds at that moment, and what a get()
\* made inside the listener returns is structurally equal to that argument
C31_ListenerSeesCurrentValue ==
    [][(Len(calls') = Len(calls) + 1) =>
          (/\ calls'[Len(calls')].arg = internalState
           /\ (got'.op = "listener get" =>
                 Shape(got'.val, heap') = Shape(got'.prev, heap')))]_vars

\* C32: every listener invoked by a notification, with no set nested in it,
\* is one whose entry was in the list when the notification began (an entry
\* subscribed during the dispatch is not invoked by it), and a mutation
\* whose listeners left the list alone has invoked every entry once
C32_SubscribedDuringDispatchWaits ==
    /\ \A j \in 1..Len(calls) :
          \E n \in 1..Len(snap.box) : snap.box[n].by = calls[j].by
    /\ (Returned /\ dirty = {}) => CalledOnceInOrder(snap.box)

\* C33: a set whose handler throws leaves the stored value (in identity and
\* in content), the subscriber list and the closures as they were, starts
\* no notification and invokes no listener, so the box is as it was for
\* whatever is called next
C33_ThrowingHandlerChangesNothing ==
    [][last' = "set thrown" =>
          (/\ internalState' = internalState
           /\ Shape(internalState', heap') = Shape(internalState, heap)
           /\ UNCHANGED <<subscribers, handles, stack>>
           /\ calls' = <<>>)]_vars

\* C33 witness: a handler wrote to the object it was given and threw, in a
\* box with two listeners, after an earlier set had changed the box
C33_Witness ==
    /\ last = "set thrown"
    /\ IsObject(internalState, heap)
    /\ heap[internalState.v].v[1] = Num(1)
    /\ \E i \in Ids : heap[i] = Obj(Num(0), Str) /\ i > internalState.v
    /\ Len(subscribers) = 2

\* C34: when a listener has thrown, no loop is left in progress (the
\* exception has reached the caller of the top-level set), the box holds
\* the last value stored, the subscriber list is what it was when the
\* mutation began, and, when no listener set the box, the listeners invoked
\* are the entries up to the one that threw, once each and in order; a
\* later mutation whose listeners all return invokes every entry once
C34_ThrowingListenerStopsDispatch ==
    /\ last = "listener thrown" =>
          /\ stack = <<>>
          /\ internalState = stored[Len(stored)]
          /\ subscribers = snap.box
          /\ Len(calls) >= 1
          /\ Len(stored) = 1 =>
                /\ Len(calls) <= Len(snap.box)
                /\ \A j \in 1..Len(calls) : calls[j].by = snap.box[j].by
    /\ (Returned /\ dirty = {}) => CalledOnceInOrder(snap.box)

\* C34 witness: the second of three listeners threw
C34_Witness ==
    /\ last = "listener thrown"
    /\ Len(snap.box) = 3
    /\ Len(calls) = 2
    /\ Len(stored) = 1
    /\ internalState = Num(1)

====
